---------------------------- MODULE Spec2Model ----------------------------
(***************************************************************************)
(* A model of the openapiv3 crate's StatusCode key (src/status_code.rs):   *)
(* its Display / Serialize encoder, its Deserialize visitor, its derived   *)
(* equality, ordering and hash, and of the field-presence attributes of    *)
(* the Operation record (src/operation.rs).                                *)
(*                                                                         *)
(* A string is a sequence of characters; a character is its Unicode code   *)
(* point.  The bytes of a string are its UTF-8 encoding, so that           *)
(* `str::len()`, `str::is_ascii()` and `str::as_bytes()` see what the      *)
(* program sees.                                                           *)
(***************************************************************************)
EXTENDS Integers, Sequences, FiniteSets, TLC

VARIABLES
    pc,       \* position of the codec run: "node", "value", "decoded", "encoded", "done"
    input,    \* the document node handed to StatusCode::deserialize, or NoNode
    res,      \* Result of deserializing `input`
    val,      \* the StatusCode value held (decoded or constructed), or NoValue
    out,      \* the node StatusCode::serialize emitted for `val`, or NoNode
    back,     \* Result of deserializing `out` again
    x, y, z,  \* three StatusCode values compared with each other
    rel,      \* what eq / cmp / hash answered for x, y, z
    opc,      \* position of the Operation run: "doc", "record", "failed"
    orig,     \* the Operation document first read
    doc,      \* the Operation document currently read or last written
    op,       \* the Operation record held, or NoOperation
    rounds    \* how many decode-then-encode round trips were completed

vars == <<pc, input, res, val, out, back, x, y, z, rel, opc, orig, doc, op, rounds>>

codecVars == <<pc, input, res, val, out, back>>
ordVars == <<x, y, z, rel>>
opVars == <<opc, orig, doc, op, rounds>>

---------------------------------------------------------------------------
(* Bounds of the model.                                                    *)

\* longest input string, in characters
MaxLen == 4
\* integer inputs range over -MaxInt .. MaxInt (and a few wide values)
MaxInt == 1001
\* payloads given to the public constructors range over 0 .. MaxPayload
MaxPayload == 1000
\* payloads of the compared values range over 0 .. MaxOrdPayload (and a few more)
MaxOrdPayload == 2
\* longest tags / parameters array of an Operation document
MaxItems == 2
\* decode-then-encode round trips of an Operation document
MaxRounds == 2

---------------------------------------------------------------------------
(* Characters and strings.                                                 *)

\* u16: the payload type of both variants
U16 == 65536

\* b'0'
Ch0 == 48
\* b'9', the last byte u8::is_ascii_digit accepts
Ch9 == 57
\* b'+' and b'-', the signs i64::from_str accepts
ChPlus == 43
ChMinus == 45
\* b'X'
ChX == 88

\* the characters input strings are built from:
\* 0 1 2 9 + - X Y x, and the non-ASCII e-acute (2 bytes) and euro sign (3 bytes)
Alphabet == {Ch0, Ch0 + 1, Ch0 + 2, Ch9, ChPlus, ChMinus, ChX, ChX + 1, ChX + 32, 233, 8364}

\* the UTF-8 encoding of one character
Utf8(c) ==
    IF c < 128 THEN <<c>>
    ELSE IF c < 2048 THEN <<192 + (c \div 64), 128 + (c % 64)>>
    ELSE IF c < 65536
         THEN <<224 + (c \div 4096), 128 + ((c \div 64) % 64), 128 + (c % 64)>>
    ELSE <<240 + (c \div 262144), 128 + ((c \div 4096) % 64),
           128 + ((c \div 64) % 64), 128 + (c % 64)>>

RECURSIVE as_bytes(_)
\* value.as_bytes(): the UTF-8 bytes of a string
as_bytes(s) == IF s = <<>> THEN <<>> ELSE Utf8(Head(s)) \o as_bytes(Tail(s))

\* value.len(): the length of a str in bytes
str_len(s) == Len(as_bytes(s))

\* value.is_ascii()
is_ascii(s) == \A i \in 1..Len(as_bytes(s)) : as_bytes(s)[i] < 128

\* a variant that leaves every byte as it is
byte_keep_case(b) == b

\* u8::to_ascii_uppercase
byte_to_ascii_uppercase(b) == IF b >= 97 /\ b <= 122 THEN b - 32 ELSE b

\* <[u8]>::to_ascii_uppercase
to_ascii_uppercase(bs) == [i \in 1..Len(bs) |-> byte_to_ascii_uppercase(bs[i])]

\* u8::is_ascii_digit
is_ascii_digit(b) == b >= Ch0 /\ b <= Ch9

RECURSIVE DigitsValue(_)
\* the number a sequence of ASCII digit bytes denotes in base 10
DigitsValue(bs) ==
    IF bs = <<>> THEN 0
    ELSE 10 * DigitsValue(SubSeq(bs, 1, Len(bs) - 1)) + (bs[Len(bs)] - Ch0)

\* a variant that accepts no sign
parse_unsigned(s) ==
    LET bs == as_bytes(s)
    IN  IF bs = <<>> \/ \E i \in 1..Len(bs) : ~is_ascii_digit(bs[i])
        THEN [ok |-> FALSE, n |-> 0]
        ELSE [ok |-> TRUE, n |-> DigitsValue(bs)]

\* value.parse::<i64>(): an optional sign, then one or more ASCII digits
\* (no input of the model is long enough to overflow an i64)
parse_i64(s) ==
    LET bs == as_bytes(s)
        signed == bs # <<>> /\ bs[1] \in {ChPlus, ChMinus}
        digits == IF signed THEN Tail(bs) ELSE bs
    IN  IF digits = <<>> \/ \E i \in 1..Len(digits) : ~is_ascii_digit(digits[i])
        THEN [ok |-> FALSE, n |-> 0]
        ELSE [ok |-> TRUE,
              n |-> IF signed /\ bs[1] = ChMinus
                    THEN 0 - DigitsValue(digits) ELSE DigitsValue(digits)]

RECURSIVE fmt_u16(_)
\* write!(f, "{}", n) for a u16: its decimal digits, no leading zero
fmt_u16(n) ==
    IF n < 10 THEN <<Ch0 + n>> ELSE Append(fmt_u16(n \div 10), Ch0 + (n % 10))

---------------------------------------------------------------------------
(* enum StatusCode and the nodes of a document.                            *)

NoValue == [tag |-> "None", n |-> 0]
\* StatusCode::Code(n)
Code(n) == [tag |-> "Code", n |-> n]
\* StatusCode::Range(n)
Range(n) == [tag |-> "Range", n |-> n]

NoNode == [kind |-> "none", n |-> 0, s |-> <<>>]
I64Node(n) == [kind |-> "i64", n |-> n, s |-> <<>>]
U64Node(n) == [kind |-> "u64", n |-> n, s |-> <<>>]
StrNode(s) == [kind |-> "str", n |-> 0, s |-> s]

\* the `expected` texts of the visitor's errors
ExpectingSelf == "number between 100 and 999 (as string or integer) or a string that matches \\dXX"
ExpectedLength == "length 3"
ExpectedAscii == "ascii, format \\dXX"
ExpectedFormat == "format \\dXX"

NoResult == [ok |-> FALSE, value |-> NoValue, unexpected |-> "", expected |-> ""]
Ok(v) == [ok |-> TRUE, value |-> v, unexpected |-> "", expected |-> ""]
\* E::invalid_value(Unexpected::<unexp>(value), &<exp>)
invalid_value(unexp, exp) ==
    [ok |-> FALSE, value |-> NoValue, unexpected |-> unexp, expected |-> exp]

\* value as u16
as_u16(n) == n % U16

\* a variant whose lower bound is exclusive
visit_i64_above_100(value) ==
    IF value > 100 /\ value < 1000
    THEN Ok(Code(as_u16(value)))
    ELSE invalid_value("Signed", ExpectingSelf)

\* a variant with no upper bound
visit_i64_no_upper(value) ==
    IF value >= 100
    THEN Ok(Code(as_u16(value)))
    ELSE invalid_value("Signed", ExpectingSelf)

\* StatusCodeVisitor::visit_i64
visit_i64(value) ==
    IF value >= 100 /\ value < 1000
    THEN Ok(Code(as_u16(value)))
    ELSE invalid_value("Signed", ExpectingSelf)

\* a variant whose upper bound is inclusive
visit_u64_upto_1000(value) ==
    IF value >= 100 /\ value <= 1000
    THEN Ok(Code(as_u16(value)))
    ELSE invalid_value("Unsigned", ExpectingSelf)

\* StatusCodeVisitor::visit_u64
visit_u64(value) ==
    IF value >= 100 /\ value < 1000
    THEN Ok(Code(as_u16(value)))
    ELSE invalid_value("Unsigned", ExpectingSelf)

\* a variant that rejects only the strings shorter than 3 bytes
visit_str_short_only(value) ==
    IF str_len(value) < 3 THEN invalid_value("Str", ExpectedLength)
    ELSE IF parse_i64(value).ok THEN visit_i64(parse_i64(value).n)
    ELSE IF ~is_ascii(value) THEN invalid_value("Str", ExpectedAscii)
    ELSE LET v == to_ascii_uppercase(as_bytes(value))
         IN  IF v[2] = ChX /\ v[3] = ChX /\ is_ascii_digit(v[1])
             THEN Ok(Range(v[1] - Ch0))
             ELSE invalid_value("Str", ExpectedFormat)

\* a variant without the is_ascii test
visit_str_no_ascii_test(value) ==
    IF str_len(value) # 3 THEN invalid_value("Str", ExpectedLength)
    ELSE IF parse_i64(value).ok THEN visit_i64(parse_i64(value).n)
    ELSE LET v == to_ascii_uppercase(as_bytes(value))
         IN  IF v[2] = ChX /\ v[3] = ChX /\ is_ascii_digit(v[1])
             THEN Ok(Range(v[1] - Ch0))
             ELSE invalid_value("Str", ExpectedFormat)

\* StatusCodeVisitor::visit_str
visit_str(value) ==
    IF str_len(value) # 3 THEN invalid_value("Str", ExpectedLength)
    ELSE IF parse_i64(value).ok THEN visit_i64(parse_i64(value).n)
    ELSE IF ~is_ascii(value) THEN invalid_value("Str", ExpectedAscii)
    ELSE LET v == to_ascii_uppercase(as_bytes(value))
         IN  IF v[2] = ChX /\ v[3] = ChX /\ is_ascii_digit(v[1])
             THEN Ok(Range(v[1] - Ch0))
             ELSE invalid_value("Str", ExpectedFormat)

\* StatusCode::deserialize: deserialize_any hands the node to the visitor
\* method of the node's type
StatusCode_deserialize(node) ==
    CASE node.kind = "i64" -> visit_i64(node.n)
      [] node.kind = "u64" -> visit_u64(node.n)
      [] OTHER -> visit_str(node.s)

\* a variant that writes the class marker in lower case
to_string_lower(v) ==
    IF v.tag = "Code" THEN fmt_u16(v.n) ELSE fmt_u16(v.n) \o <<ChX + 32, ChX + 32>>

\* <StatusCode as Display>::fmt, through to_string()
to_string(v) ==
    IF v.tag = "Code" THEN fmt_u16(v.n) ELSE fmt_u16(v.n) \o <<ChX, ChX>>

\* StatusCode::serialize: serialize_str(&self.to_string())
StatusCode_serialize(v) == StrNode(to_string(v))

---------------------------------------------------------------------------
(* The codec run: a document node is deserialized, the value is           *)
(* serialized, and the emitted node is deserialized again; or a value      *)
(* built with the public variants is serialized and deserialized.          *)

\* every string of at most MaxLen characters over Alphabet
Strings == UNION {[1..k -> Alphabet] : k \in 0..MaxLen}

\* integers an i64 node can hold: around the bounds, and beyond the u16 range
I64Inputs == (0 - MaxInt)..MaxInt \cup {U16 + 99, U16 + 200, U16 + 1000, 200 - U16}

\* integers a u64 node can hold
U64Inputs == {n \in I64Inputs : n >= 0}

\* the nodes a document can hand to StatusCode::deserialize
Nodes ==
    {I64Node(n) : n \in I64Inputs} \cup {U64Node(n) : n \in U64Inputs}
        \cup {StrNode(s) : s \in Strings}

\* payloads a caller can give to the public variants Code(u16) and Range(u16)
Payloads == 0..MaxPayload \cup {U16 - 1}

\* the values a caller can build without the deserializer
Constructed == {Code(n) : n \in Payloads} \cup {Range(n) : n \in Payloads}

\* the derived operations have answered nothing yet
RelUnset ==
    [done |-> {},
     eq |-> [p \in (1..3) \X (1..3) |-> FALSE],
     cmp |-> [p \in (1..3) \X (1..3) |-> "Equal"],
     hash |-> [i \in 1..3 |-> <<>>]]

OrdIdle ==
    /\ x = NoValue /\ y = NoValue /\ z = NoValue
    /\ rel = RelUnset

OpIdle ==
    /\ opc = "idle" /\ orig = <<>> /\ doc = <<>> /\ op = <<>> /\ rounds = 0

CodecIdle ==
    /\ pc = "idle" /\ input = NoNode /\ res = NoResult
    /\ val = NoValue /\ out = NoNode /\ back = NoResult

\* a document node awaits the deserializer, or there is none and the caller
\* builds a value itself
Init ==
    /\ pc = "node"
    /\ input \in Nodes \cup {NoNode}
    /\ val = NoValue
    /\ res = NoResult
    /\ out = NoNode
    /\ back = NoResult
    /\ OrdIdle
    /\ OpIdle

\* StatusCode::Code(n) or StatusCode::Range(n), written by a caller
Construct ==
    /\ pc = "node"
    /\ input = NoNode
    /\ val' \in Constructed
    /\ pc' = "value"
    /\ UNCHANGED <<input, res, out, back, ordVars, opVars>>

\* StatusCode::deserialize(input)
Deserialize ==
    /\ pc = "node"
    /\ input # NoNode
    /\ res' = StatusCode_deserialize(input)
    /\ val' = res'.value
    /\ pc' = "decoded"
    /\ UNCHANGED <<input, out, back, ordVars, opVars>>

\* val.serialize(serializer)
Serialize ==
    /\ \/ pc = "value"
       \/ pc = "decoded" /\ res.ok
    /\ out' = StatusCode_serialize(val)
    /\ pc' = "encoded"
    /\ UNCHANGED <<input, res, val, back, ordVars, opVars>>

\* StatusCode::deserialize(out): the emitted node is read again
DeserializeEmitted ==
    /\ pc = "encoded"
    /\ back' = StatusCode_deserialize(out)
    /\ pc' = "done"
    /\ UNCHANGED <<input, res, val, out, ordVars, opVars>>

Next == Construct \/ Deserialize \/ Serialize \/ DeserializeEmitted

Spec == Init /\ [][Next]_vars

---------------------------------------------------------------------------
(* The codec's claims.                                                     *)

\* Code(n) with 100 <= n <= 999, or Range(d) with 0 <= d <= 9
WellFormed(v) ==
    \/ v.tag = "Code" /\ v.n >= 100 /\ v.n <= 999
    \/ v.tag = "Range" /\ v.n >= 0 /\ v.n <= 9

\* the error classes: invalid_value told apart by its `expected` text
OutOfRange(r) == ~r.ok /\ r.expected = ExpectingSelf
WrongLength(r) == ~r.ok /\ r.expected = ExpectedLength
InvalidFormat(r) == ~r.ok /\ r.expected \in {ExpectedAscii, ExpectedFormat}

IsDigitChar(c) == c >= 48 /\ c <= 57
IsAsciiChar(c) == c < 128
Decoded == pc # "node" /\ input # NoNode

\* C1: round-trip law. Once a well-formed value has been serialized and the
\* emitted node deserialized, the result is Ok of that very value.
C1_RoundTrip ==
    (pc = "done" /\ WellFormed(val)) => back = Ok(val)

C1_Witness ==
    /\ pc = "done" /\ input = NoNode
    /\ val = Code(100) /\ out = StrNode(<<49, 48, 48>>) /\ back = Ok(Code(100))

\* C2: canonical-form law. Whatever accepted surface form was decoded, the
\* emitted node is a string, never a number: three decimal digits denoting n
\* for Code(n), the digit d and two upper-case X for Range(d); a decoded string
\* is emitted as its own upper-casing, a decoded integer as its digits.
C2_CanonicalForm ==
    (pc \in {"encoded", "done"} /\ input # NoNode) =>
        /\ out.kind = "str"
        /\ Len(out.s) = 3
        /\ val.tag = "Code" =>
              /\ \A i \in 1..3 : IsDigitChar(out.s[i])
              /\ 100 * (out.s[1] - 48) + 10 * (out.s[2] - 48) + (out.s[3] - 48) = val.n
        /\ val.tag = "Range" =>
              /\ val.n \in 0..9
              /\ out.s = <<48 + val.n, 88, 88>>
        /\ input.kind = "str" =>
              /\ Len(input.s) = 3
              /\ \A i \in 1..3 :
                    out.s[i] = IF input.s[i] = 120 THEN 88 ELSE input.s[i]
        /\ input.kind # "str" =>
              /\ val.tag = "Code"
              /\ val.n = input.n

C2_Witness ==
    /\ pc = "encoded"
    /\ input = StrNode(<<50, 120, 120>>)
    /\ val = Range(2)
    /\ out = StrNode(<<50, 88, 88>>)

\* C3: integer decode bound. An integer node, signed or unsigned, decodes iff
\* 100 <= value <= 999, to Code(value); every other integer fails with the
\* OutOfRange error and yields no value.
C3_IntegerBound ==
    (Decoded /\ input.kind \in {"i64", "u64"}) =>
        /\ res.ok <=> (input.n >= 100 /\ input.n <= 999)
        /\ res.ok => (res.value = Code(input.n) /\ val = Code(input.n))
        /\ ~res.ok => (OutOfRange(res) /\ res.value = NoValue /\ val = NoValue)

C3_Witness ==
    /\ pc = "decoded"
    /\ input = U64Node(999)
    /\ res = Ok(Code(999))

\* C4 as stated: every string whose length in characters is not 3 fails with
\* WrongLength.
C4_CharLengthCheck ==
    (Decoded /\ input.kind = "str" /\ Len(input.s) # 3) => WrongLength(res)

\* C4 as amended: every string whose length in UTF-8 bytes is not 3 fails with
\* WrongLength; so does every 4-character string and every all-ASCII string
\* of 2 characters.
C4_ByteLengthCheck ==
    (Decoded /\ input.kind = "str") =>
        /\ str_len(input.s) # 3 => WrongLength(res)
        /\ Len(input.s) = 4 => WrongLength(res)
        /\ (Len(input.s) = 2 /\ \A i \in 1..2 : IsAsciiChar(input.s[i])) => WrongLength(res)
        /\ WrongLength(res) => str_len(input.s) # 3

C4_Witness ==
    /\ pc = "decoded"
    /\ input = StrNode(<<50, 88, 88, 89>>)
    /\ res = invalid_value("Str", ExpectedLength)

\* C5 as stated: every string of exactly 3 characters with a non-ASCII
\* character among them fails with InvalidFormat.
C5_NonAsciiThreeChars ==
    (Decoded /\ input.kind = "str" /\ Len(input.s) = 3
        /\ \E i \in 1..3 : ~IsAsciiChar(input.s[i])) => InvalidFormat(res)

\* C5 as amended: every string of exactly 3 bytes with a non-ASCII character
\* among them fails with the InvalidFormat error that expects ascii; a string
\* of 3 characters with a non-ASCII character is longer than 3 bytes and fails
\* with WrongLength.
C5_NonAsciiThreeBytes ==
    (Decoded /\ input.kind = "str" /\ \E i \in 1..Len(input.s) : ~IsAsciiChar(input.s[i])) =>
        /\ str_len(input.s) = 3 => res = invalid_value("Str", ExpectedAscii)
        /\ Len(input.s) = 3 => WrongLength(res)

C5_Witness ==
    /\ pc = "decoded"
    /\ input = StrNode(<<233, 49>>)
    /\ res = invalid_value("Str", ExpectedAscii)

\* C6: wildcard recognition. A 3-character ASCII string that is no base-10
\* integer decodes to Range(d) iff its first character is the digit d and its
\* second and third are X or x; every other such string fails with
\* InvalidFormat.
C6_Wildcard ==
    (Decoded /\ input.kind = "str" /\ Len(input.s) = 3
        /\ (\A i \in 1..3 : IsAsciiChar(input.s[i]))
        /\ ~parse_i64(input.s).ok) =>
        LET s == input.s
            class == IsDigitChar(s[1]) /\ s[2] \in {88, 120} /\ s[3] \in {88, 120}
        IN  /\ res.ok <=> class
            /\ class => res = Ok(Range(s[1] - 48))
            /\ ~class => InvalidFormat(res)

C6_Witness ==
    /\ pc = "decoded"
    /\ input = StrNode(<<57, 120, 88>>)
    /\ res = Ok(Range(9))

\* C7: a quoted number decodes as the bare integer does. A 3-character string
\* of three digits denoting k, or of a sign and two digits, decodes to Code(k)
\* when 100 <= k <= 999 and fails with the integer's OutOfRange error
\* otherwise, a signed spelling always.
C7_QuotedNumber ==
    (Decoded /\ input.kind = "str" /\ Len(input.s) = 3) =>
        LET s == input.s
            k == 100 * (s[1] - 48) + 10 * (s[2] - 48) + (s[3] - 48)
        IN  /\ (\A i \in 1..3 : IsDigitChar(s[i])) =>
                  /\ parse_i64(s) = [ok |-> TRUE, n |-> k]
                  /\ k >= 100 => res = Ok(Code(k))
                  /\ k < 100 => res = invalid_value("Signed", ExpectingSelf)
            /\ (s[1] \in {43, 45} /\ IsDigitChar(s[2]) /\ IsDigitChar(s[3])) =>
                  /\ parse_i64(s).ok
                  /\ res = invalid_value("Signed", ExpectingSelf)
            /\ parse_i64(s).ok => (res.ok \/ OutOfRange(res))
            /\ parse_i64(s).ok => res.value.tag # "Range"

C7_Witness ==
    /\ pc = "decoded"
    /\ input = StrNode(<<43, 57, 57>>)
    /\ res = invalid_value("Signed", ExpectingSelf)

\* C8 as stated: every StatusCode value in existence is well-formed.
C8_AllWellFormed ==
    /\ val # NoValue => WellFormed(val)
    /\ res.ok => WellFormed(res.value)
    /\ back.ok => WellFormed(back.value)

\* C8 as amended: every value a deserialization yields is well-formed, and a
\* failed deserialization yields none; a value built with the public variants
\* is not constrained.
C8_DecodedWellFormed ==
    /\ res.ok => WellFormed(res.value)
    /\ back.ok => WellFormed(back.value)
    /\ (pc = "decoded" /\ ~res.ok) => val = NoValue
    /\ (pc # "node" /\ input # NoNode /\ res.ok) => (val = res.value /\ WellFormed(val))

C8_Witness ==
    /\ pc = "decoded"
    /\ input = I64Node(999)
    /\ val = Code(999)

---------------------------------------------------------------------------
(* The derived PartialEq, Eq, PartialOrd, Ord and Hash of StatusCode.      *)

\* the index of a value's variant in the enum's declaration
discriminant(v) == IF v.tag = "Code" THEN 0 ELSE 1

\* Ord::cmp of two integers
cmp_int(a, b) == IF a < b THEN "Less" ELSE IF a = b THEN "Equal" ELSE "Greater"

\* derived PartialEq::eq: same variant and equal payloads
StatusCode_eq(a, b) == discriminant(a) = discriminant(b) /\ a.n = b.n

\* a variant that compares the payloads alone
StatusCode_cmp_payload_only(a, b) == cmp_int(a.n, b.n)

\* derived Ord::cmp: by variant, in declaration order, then by payload
StatusCode_cmp(a, b) ==
    IF discriminant(a) # discriminant(b)
    THEN cmp_int(discriminant(a), discriminant(b))
    ELSE cmp_int(a.n, b.n)

\* derived Hash::hash: the words written to the Hasher, the discriminant and
\* then the payload; the hash is a function of these words
StatusCode_hash(v) == <<discriminant(v), v.n>>

\* payloads of the compared values
OrdPayloads == 0..MaxOrdPayload \cup {9, 100, 200, 999, U16 - 1}

OrdValues == {Code(n) : n \in OrdPayloads} \cup {Range(n) : n \in OrdPayloads}

Pairs == (1..3) \X (1..3)

\* x, y, z by position
V == <<x, y, z>>

OrdInit ==
    /\ x \in OrdValues /\ y \in OrdValues /\ z \in OrdValues
    /\ rel = RelUnset
    /\ CodecIdle
    /\ OpIdle

\* a == b, for every two of x, y, z
Eq ==
    /\ "eq" \notin rel.done
    /\ rel' = [rel EXCEPT !.done = @ \cup {"eq"},
                          !.eq = [p \in Pairs |-> StatusCode_eq(V[p[1]], V[p[2]])]]
    /\ UNCHANGED <<x, y, z, codecVars, opVars>>

\* a.cmp(&b), for every two of x, y, z
Cmp ==
    /\ "cmp" \notin rel.done
    /\ rel' = [rel EXCEPT !.done = @ \cup {"cmp"},
                          !.cmp = [p \in Pairs |-> StatusCode_cmp(V[p[1]], V[p[2]])]]
    /\ UNCHANGED <<x, y, z, codecVars, opVars>>

\* a.hash(&mut hasher), for each of x, y, z
Hash ==
    /\ "hash" \notin rel.done
    /\ rel' = [rel EXCEPT !.done = @ \cup {"hash"},
                          !.hash = [i \in 1..3 |-> StatusCode_hash(V[i])]]
    /\ UNCHANGED <<x, y, z, codecVars, opVars>>

OrdNext == Eq \/ Cmp \/ Hash

OrdSpec == OrdInit /\ [][OrdNext]_vars

\* C9: ordering / equality / hash contract. Equality is same tag and same
\* payload, so no Code equals a Range; the order is a strict total order
\* consistent with equality (exactly one of a < b, a == b, b < a; irreflexive;
\* transitive), every Code before every Range and then by payload; and equal
\* values hash alike.
C9_OrderEqHash ==
    /\ "eq" \in rel.done =>
          \A p \in Pairs :
              /\ rel.eq[p] <=> (V[p[1]].tag = V[p[2]].tag /\ V[p[1]].n = V[p[2]].n)
              /\ V[p[1]].tag # V[p[2]].tag => ~rel.eq[p]
    /\ "cmp" \in rel.done =>
          /\ \A i \in 1..3 : rel.cmp[<<i, i>>] # "Less"
          /\ \A i, j, k \in 1..3 :
                (rel.cmp[<<i, j>>] = "Less" /\ rel.cmp[<<j, k>>] = "Less")
                    => rel.cmp[<<i, k>>] = "Less"
          /\ \A p \in Pairs :
                /\ (V[p[1]].tag = "Code" /\ V[p[2]].tag = "Range") => rel.cmp[p] = "Less"
                /\ V[p[1]].tag = V[p[2]].tag =>
                      (rel.cmp[p] = "Less" <=> V[p[1]].n < V[p[2]].n)
    /\ {"eq", "cmp"} \subseteq rel.done =>
          \A i, j \in 1..3 :
              LET lt == rel.cmp[<<i, j>>] = "Less"
                  gt == rel.cmp[<<j, i>>] = "Less"
                  eq == rel.eq[<<i, j>>]
              IN  /\ lt \/ eq \/ gt
                  /\ ~(lt /\ eq) /\ ~(lt /\ gt) /\ ~(eq /\ gt)
                  /\ eq <=> rel.cmp[<<i, j>>] = "Equal"
    /\ {"eq", "hash"} \subseteq rel.done =>
          \A i, j \in 1..3 : rel.eq[<<i, j>>] => rel.hash[i] = rel.hash[j]

C9_Witness ==
    /\ rel.done = {"eq", "cmp", "hash"}
    /\ x = Code(200) /\ y = Range(2) /\ z = Code(200)
    /\ ~rel.eq[<<1, 2>>] /\ rel.cmp[<<1, 2>>] = "Less"
    /\ rel.eq[<<1, 3>>] /\ rel.hash[1] = rel.hash[3]

---------------------------------------------------------------------------
(* struct Operation: which keys its derived Deserialize accepts as missing *)
(* and which keys its derived Serialize emits.  The values of the fields   *)
(* are opaque; only their presence and the length of an array matter.      *)

\* the fields declared Option<_> with skip_serializing_if = "Option::is_none"
OptionFields == {"summary", "description", "external_documentation", "operation_id", "request_body"}

\* the fields declared Vec<_> with default and skip_serializing_if = "Vec::is_empty"
VecFields == {"tags", "parameters"}

\* the field with no attribute
RequiredFields == {"responses"}

Fields == OptionFields \cup VecFields \cup RequiredFields

\* #[serde(rename_all = "camelCase")]: the key of each field
camelCase ==
    [f \in Fields |->
        CASE f = "external_documentation" -> "externalDocumentation"
          [] f = "operation_id" -> "operationId"
          [] f = "request_body" -> "requestBody"
          [] OTHER -> f]

\* a key Operation does not declare
UnknownKeys == {"deprecated"}

Keys == {camelCase[f] : f \in Fields} \cup UnknownKeys

\* what a document holds under a key
Missing == [kind |-> "missing", len |-> 0]
Null == [kind |-> "null", len |-> 0]
Value == [kind |-> "value", len |-> 0]
Array(n) == [kind |-> "array", len |-> n]

\* what a field of the record holds
None == [kind |-> "None", len |-> 0]
Some == [kind |-> "Some", len |-> 0]
Vec(n) == [kind |-> "Vec", len |-> n]
Held == [kind |-> "Held", len |-> 0]

\* the documents read: every optional key missing, null or present, every
\* array key missing, null or an array of at most MaxItems items
Documents ==
    {[k \in Keys |->
        IF k \in DOMAIN o THEN o[k]
        ELSE IF k \in DOMAIN v THEN v[k]
        ELSE IF k \in DOMAIN r THEN r[k]
        ELSE u[k]] :
        o \in [{camelCase[f] : f \in OptionFields} -> {Missing, Null, Value}],
        v \in [{camelCase[f] : f \in VecFields} ->
                  {Missing, Null} \cup {Array(n) : n \in 0..MaxItems}],
        r \in [{camelCase[f] : f \in RequiredFields} -> {Missing, Value}],
        u \in [UnknownKeys -> {Missing, Value}]}

\* derived Deserialize, one field: an Option is None when its key is missing
\* or null; a Vec with #[serde(default)] is empty when its key is missing
deserialize_field(f, node) ==
    IF f \in OptionFields THEN (IF node.kind = "value" THEN Some ELSE None)
    ELSE IF f \in VecFields THEN (IF node.kind = "array" THEN Vec(node.len) ELSE Vec(0))
    ELSE Held

\* derived Deserialize: fails on a missing `responses` and on a null where a
\* sequence is expected; keys that are no field are ignored
Operation_deserialize_ok(d) ==
    /\ \A f \in RequiredFields : d[camelCase[f]].kind # "missing"
    /\ \A f \in VecFields : d[camelCase[f]].kind # "null"

Operation_deserialize(d) == [f \in Fields |-> deserialize_field(f, d[camelCase[f]])]

\* a variant with no skip_serializing_if on the Vec fields
serialize_field_no_vec_skip(f, v) ==
    IF f \in OptionFields THEN (IF v.kind = "None" THEN Missing ELSE Value)
    ELSE IF f \in VecFields THEN Array(v.len)
    ELSE Value

\* derived Serialize, one field: skipped when Option::is_none / Vec::is_empty
serialize_field(f, v) ==
    IF f \in OptionFields THEN (IF v.kind = "None" THEN Missing ELSE Value)
    ELSE IF f \in VecFields THEN (IF v.len = 0 THEN Missing ELSE Array(v.len))
    ELSE Value

\* derived Serialize: the keys of the fields, none other
Operation_serialize(o) ==
    [k \in Keys |->
        IF \E f \in Fields : camelCase[f] = k
        THEN LET f == CHOOSE g \in Fields : camelCase[g] = k IN serialize_field(f, o[f])
        ELSE Missing]

OpInit ==
    /\ opc = "doc"
    /\ orig \in Documents
    /\ doc = orig
    /\ op = <<>>
    /\ rounds = 0
    /\ CodecIdle
    /\ OrdIdle

\* Operation::deserialize(doc)
OpDecode ==
    /\ opc = "doc"
    /\ IF Operation_deserialize_ok(doc)
       THEN op' = Operation_deserialize(doc) /\ opc' = "record"
       ELSE op' = <<>> /\ opc' = "failed"
    /\ UNCHANGED <<orig, doc, rounds, codecVars, ordVars>>

\* op.serialize(serializer): the document written replaces the one read
OpEncode ==
    /\ opc = "record"
    /\ rounds < MaxRounds
    /\ doc' = Operation_serialize(op)
    /\ rounds' = rounds + 1
    /\ opc' = "doc"
    /\ UNCHANGED <<orig, op, codecVars, ordVars>>

OpNext == OpDecode \/ OpEncode

OpSpec == OpInit /\ [][OpNext]_vars

\* C10: field-presence symmetry. A missing optional key decodes to None (an
\* empty Vec for tags and parameters), not to an error; a key is emitted iff
\* its field is Some / a non-empty Vec, and responses always; so after any
\* number of round trips the written document has no key the first document
\* lacked and no empty array.
C10_FieldPresence ==
    /\ opc = "record" =>
          /\ \A f \in OptionFields : doc[camelCase[f]].kind = "missing" => op[f].kind = "None"
          /\ \A f \in VecFields :
                doc[camelCase[f]].kind = "missing" => (op[f].kind = "Vec" /\ op[f].len = 0)
    /\ opc = "failed" =>
          \/ doc["responses"].kind = "missing"
          \/ \E k \in {"tags", "parameters"} : doc[k].kind = "null"
    /\ (opc = "doc" /\ rounds > 0) =>
          /\ \A f \in OptionFields : doc[camelCase[f]].kind # "missing" <=> op[f].kind = "Some"
          /\ \A f \in VecFields : doc[camelCase[f]].kind # "missing" <=> op[f].len > 0
          /\ doc["responses"].kind = "value"
          /\ \A k \in Keys : doc[k].kind # "missing" => orig[k].kind # "missing"
          /\ \A k \in Keys : doc[k] # Array(0) /\ doc[k].kind # "null"
          /\ \A k \in {"summary", "description", "externalDocumentation", "operationId",
                        "requestBody", "tags", "parameters"} :
                orig[k].kind = "missing" => doc[k].kind = "missing"

C10_Witness ==
    /\ opc = "doc" /\ rounds = 2
    /\ orig["tags"] = Missing /\ orig["parameters"] = Array(0)
    /\ orig["summary"] = Missing /\ orig["operationId"] = Value
    /\ doc["tags"] = Missing /\ doc["parameters"] = Missing
    /\ doc["summary"] = Missing /\ doc["operationId"] = Value
    /\ doc["responses"] = Value

============================================================================
